---- MODULE Spec2Model ----
(***************************************************************************)
(* Model of SimulationWorker.run (src/app/simulation/worker.py): the       *)
(* scenario batch orchestrator of the Kenya digital-twin farm.  One batch  *)
(* is one execution of run(): shared setup, the per-scenario loop, and     *)
(* the final emission of the completion or the fatal-error signal.         *)
(***************************************************************************)
EXTENDS Integers, Sequences, FiniteSets, TLC

\* ------------------------------------------------------------------------
\* Bounds of the model
\* ------------------------------------------------------------------------
MaxScenarios == 3   \* longest scenario catalog explored
YearDays == 2       \* number of dates of the planting year that are looked up
MaxLiveScenarios == 2   \* longest catalog of the runs checked for termination
MaxApps == 2        \* longest application list of a scenario
MaxBatches == 2     \* batches started from the main window
MaxCopies == 2      \* scenario sets copied by the fertilizer dialog

\* ------------------------------------------------------------------------
\* Static catalogs
\* ------------------------------------------------------------------------
\* keys of DEFAULT_FERT_SCENARIOS, in dict (insertion) order
ScenarioKeys == <<"none", "low", "medium", "recommended", "high">>

\* display names a scenario may carry (two scenarios may share one)
ScenarioNames == {"No Fertilizer", "Low (25 kg N/ha)"}

\* the "enabled" entry of a scenario record: True, False, or no entry at all
EnabledFlags == {"True", "False", "absent"}

\* CROP_OPTIONS, reduced to the fields run() reads
CROP_OPTIONS ==
    [c \in {"barley", "wheat", "potato", "cassava", "sweetpotato"} |->
        [season_days |-> CASE c = "barley" -> 120
                           [] c = "wheat" -> 150
                           [] c = "potato" -> 120
                           [] c = "cassava" -> 300
                           [] OTHER -> 150,
         needs_vern_override |-> (c = "wheat")]]

\* crop names a configuration is built with; "millet" is not in CROP_OPTIONS
CropNames == {"barley", "potato", "millet"}

\* dates of the planting year, abstracted to 1..YearDays
Days == 1..YearDays

\* every catalog of at most MaxScenarios scenarios, keyed in catalog order
Catalogs ==
    UNION {
        { [i \in 1..n |-> [key |-> ScenarioKeys[i],
                           name |-> f[i][1],
                           enabled |-> f[i][2]]] :
            f \in [1..n -> ScenarioNames \X EnabledFlags] } :
        n \in 0..MaxScenarios }

\* where an exception can arise while one enabled scenario is processed,
\* and the two ways the engine run can return normally
BuildSteps == {"build"}
TrySteps == {"construct", "run", "output", "aggregate"}
NormalReturns == {"empty_summary", "ok"}
Outcomes == BuildSteps \cup TrySteps \cup NormalReturns

VARIABLES
    config,       \* self.config: crop name and fert_scenarios catalog
    pc,           \* position of run()
    weather_df,   \* dates whose weather lookup succeeded during setup
    results,      \* local list `results`
    dataframes,   \* local dict `dataframes`, display name -> table
    total_scenarios,
    completed,
    idx,          \* position of the for loop in fert_scenarios.items()
    emitted,      \* signals emitted so far, in order
    engineCalls,  \* keys of the scenarios the engine was constructed for
    outcomes,     \* history: what happened to each processed scenario
    fatalOrigin,  \* history: the step whose exception reached the outer except
    cropdata,     \* catalog values YAMLCropDataProvider holds for the crop
    engineArgs,   \* (params, agro) handed to the engine constructor, in order
    engineOut,    \* what the engine run returned: output days and summary
    weather,      \* the weather provider: answer or failure for each date
    queried,      \* dates the GDD loop asked the weather provider for
    main_yield,   \* local `main_yield` of the scenario being aggregated
    window,       \* MainWindow: self.fert_scenarios, run_btn, status bar
    dialog,       \* the FertilizerSettingsDialog being executed, if any
    workers,      \* the SimulationWorker threads created so far, in order
    signals,      \* terminal signals queued for the main thread
    heap          \* the dict objects: scenario sets and scenario records

\* the variables the batch-level steps of run() do not touch
gui == <<window, dialog, workers, signals, heap>>

aux == <<cropdata, engineArgs, engineOut, weather, queried, main_yield, gui>>

vars == <<config, pc, weather_df, results, dataframes, total_scenarios,
          completed, idx, emitted, engineCalls, outcomes, fatalOrigin, aux>>

\* ------------------------------------------------------------------------
\* Helpers translated from run()
\* ------------------------------------------------------------------------
\* variant: the enabled flag is not consulted
EnabledIgnoringFlag(scenario) == TRUE

\* scenario.get("enabled", True)
Enabled(scenario) == scenario.enabled # "False"

\* len([s for s in fert_scenarios.values() if s.get("enabled", True)])
RECURSIVE CountEnabled(_)
CountEnabled(cat) ==
    IF cat = <<>> THEN 0
    ELSE (IF Enabled(Head(cat)) THEN 1 ELSE 0) + CountEnabled(Tail(cat))

\* 20 + int(70 * completed / total_scenarios)
ProgressPct(done, total) == 20 + ((70 * done) \div total)

\* crop_name in ["potato", "cassava", "sweetpotato"]
IsRootTuber(crop) == crop \in {"potato", "cassava", "sweetpotato"}

Progress(pct) == [signal |-> "progress", value |-> pct]
Finished == [signal |-> "finished", value |-> 0]
Error == [signal |-> "error", value |-> 0]

\* the table pd.DataFrame(output) of the run of scenario `key`
RawTable(key) == [key |-> key, GDD |-> FALSE, daily_GDD |-> FALSE]

\* df['GDD'] = gdd_list; df['daily_GDD'] = daily_gdd_list
WithGDD(df) == [df EXCEPT !.GDD = TRUE, !.daily_GDD = TRUE]

\* the GDD block and results.append sit inside the else branch of the
\* root/tuber test, so they run only for the other crops
ReachesAggregation(crop) == ~ IsRootTuber(crop)

\* the table as it stands when line 238 stores it
TableOf(crop, key) ==
    IF ReachesAggregation(crop) THEN WithGDD(RawTable(key)) ELSE RawTable(key)

\* results after the try block of one scenario
ResultsAfter(res, crop, scenario, outcome) ==
    IF outcome = "ok" /\ ReachesAggregation(crop)
    THEN Append(res, [scenario_key |-> scenario.key,
                      scenario |-> scenario.name,
                      df |-> TableOf(crop, scenario.key)])
    ELSE res

\* variant: the table is stored before the summary is aggregated, so a
\* scenario whose aggregation raises has already left its table behind
DataframesStoredEarly(dfs, crop, scenario, outcome) ==
    IF outcome \in {"ok", "aggregate"}
    THEN [n \in (DOMAIN dfs) \cup {scenario.name} |->
            IF n = scenario.name THEN RawTable(scenario.key) ELSE dfs[n]]
    ELSE dfs

\* dataframes after the try block of one scenario
DataframesAfter(dfs, crop, scenario, outcome) ==
    IF outcome = "ok"
    THEN [n \in (DOMAIN dfs) \cup {scenario.name} |->
            IF n = scenario.name THEN TableOf(crop, scenario.key) ELSE dfs[n]]
    ELSE dfs

\* the inner try/except encloses the engine steps only
CaughtAtScenario(outcome) == outcome \in TrySteps

\* the engine constructor is the first statement of the inner try
EngineInvoked(outcome) == outcome \notin BuildSteps

\* what the history keeps of an outcome: the engine steps of the inner try
\* are one class, since the except clause treats them alike
Class(outcome) == IF outcome \in TrySteps THEN "raised" ELSE outcome

\* variant: the completion signal is emitted after the error signal as well
OuterExceptThenFinished(em, origin) ==
    /\ emitted' = Append(Append(em, Error), Finished)
    /\ fatalOrigin' = origin
    /\ pc' = "done"

\* the outer except: one error signal after what was emitted, then run() returns
OuterExcept(em, origin) ==
    /\ emitted' = Append(em, Error)
    /\ fatalOrigin' = origin
    /\ pc' = "done"

EmptyTables == [n \in {} |-> RawTable("none")]

\* values of the variables that a batch-level run leaves alone
NoCropData == [VERNSAT |-> 0, VERNBASE |-> 0, VERNDVS |-> 0]
NoEngineOut == [day |-> <<>>, summary |-> <<>>]
NoWeather == [d \in {} |-> [ok |-> FALSE, TMAX |-> 0, TMIN |-> 0]]

\* a worker looked at on its own: no window, no dialog, no other worker
NoDialog == [open |-> FALSE, fert_scenarios |-> 0, opened_on |-> <<>>]
NoGui ==
    /\ window = [fert_scenarios |-> 0, run_btn |-> FALSE, statusbar |-> "Ready"]
    /\ dialog = NoDialog
    /\ workers = <<>>
    /\ signals = <<>>
    /\ heap = [outer |-> <<>>, inner |-> <<>>]

\* ------------------------------------------------------------------------
\* Initial state: a worker constructed with a configuration, run() not begun
\* ------------------------------------------------------------------------
Init ==
    /\ config \in [crop : CropNames, fert_scenarios : Catalogs]
    /\ pc = "import"
    /\ weather_df = {}
    /\ results = <<>>
    /\ dataframes = EmptyTables
    /\ total_scenarios = 0
    /\ completed = 0
    /\ idx = 1
    /\ emitted = <<>>
    /\ engineCalls = <<>>
    /\ outcomes = <<>>
    /\ fatalOrigin = "none"
    /\ cropdata = NoCropData
    /\ engineArgs = <<>>
    /\ engineOut = NoEngineOut
    /\ weather = NoWeather
    /\ queried = <<>>
    /\ main_yield = 0
    /\ NoGui

\* ------------------------------------------------------------------------
\* Steps of run()
\* ------------------------------------------------------------------------
\* progress 5, then the pcse imports
ImportPCSE ==
    /\ pc = "import"
    /\ UNCHANGED aux
    /\ \E ok \in BOOLEAN :
        IF ok
        THEN /\ emitted' = Append(emitted, Progress(5))
             /\ pc' = "config"
             /\ UNCHANGED fatalOrigin
        ELSE OuterExcept(Append(emitted, Progress(5)), "import")
    /\ UNCHANGED <<config, weather_df, results, dataframes, total_scenarios,
                   completed, idx, engineCalls, outcomes>>

\* crop_config = CROP_OPTIONS[crop_name] and the other config lookups
GetConfiguration ==
    /\ pc = "config"
    /\ UNCHANGED aux
    /\ IF config.crop \in DOMAIN CROP_OPTIONS
       THEN /\ pc' = "weather"
            /\ UNCHANGED <<emitted, fatalOrigin>>
       ELSE OuterExcept(emitted, "config")
    /\ UNCHANGED <<config, weather_df, results, dataframes, total_scenarios,
                   completed, idx, engineCalls, outcomes>>

\* progress 15, then the weather provider is constructed
LoadWeather ==
    /\ pc = "weather"
    /\ UNCHANGED aux
    /\ \E ok \in BOOLEAN :
        IF ok
        THEN /\ emitted' = Append(emitted, Progress(15))
             /\ pc' = "table"
             /\ UNCHANGED fatalOrigin
        ELSE OuterExcept(Append(emitted, Progress(15)), "weather")
    /\ UNCHANGED <<config, weather_df, results, dataframes, total_scenarios,
                   completed, idx, engineCalls, outcomes>>

\* the year's weather table: a failed lookup only omits its date, but
\* set_index('date') raises on a table without rows; then the loop's
\* locals are initialised
StoreWeatherData ==
    /\ pc = "table"
    /\ UNCHANGED aux
    /\ \E got \in SUBSET Days :
        IF got # {}
        THEN /\ weather_df' = got
             /\ results' = <<>>
             /\ dataframes' = EmptyTables
             /\ total_scenarios' = CountEnabled(config.fert_scenarios)
             /\ completed' = 0
             /\ idx' = 1
             /\ pc' = "loop"
             /\ UNCHANGED <<emitted, fatalOrigin>>
        ELSE /\ OuterExcept(emitted, "table")
             /\ UNCHANGED <<weather_df, results, dataframes, total_scenarios,
                            completed, idx>>
    /\ UNCHANGED <<config, engineCalls, outcomes>>

\* if not scenario.get("enabled", True): continue
SkipDisabled ==
    /\ pc = "loop"
    /\ UNCHANGED aux
    /\ idx <= Len(config.fert_scenarios)
    /\ ~ Enabled(config.fert_scenarios[idx])
    /\ idx' = idx + 1
    /\ UNCHANGED <<config, pc, weather_df, results, dataframes,
                   total_scenarios, completed, emitted, engineCalls,
                   outcomes, fatalOrigin>>

\* one iteration of the loop body for an enabled scenario
RunScenario ==
    /\ pc = "loop"
    /\ UNCHANGED aux
    /\ idx <= Len(config.fert_scenarios)
    /\ Enabled(config.fert_scenarios[idx])
    /\ \E outcome \in Outcomes :
        LET scenario == config.fert_scenarios[idx]
            em == Append(emitted,
                         Progress(ProgressPct(completed, total_scenarios)))
        IN  /\ outcomes' = Append(outcomes, [key |-> scenario.key,
                                             class |-> Class(outcome)])
            /\ engineCalls' = IF EngineInvoked(outcome)
                              THEN Append(engineCalls, scenario.key)
                              ELSE engineCalls
            /\ IF outcome \in NormalReturns \/ CaughtAtScenario(outcome)
               THEN /\ results' = ResultsAfter(results, config.crop,
                                               scenario, outcome)
                    /\ dataframes' = DataframesAfter(dataframes, config.crop,
                                                     scenario, outcome)
                    /\ completed' = completed + 1
                    /\ idx' = idx + 1
                    /\ emitted' = em
                    /\ UNCHANGED <<pc, fatalOrigin>>
               ELSE /\ OuterExcept(em, "scenario")
                    /\ UNCHANGED <<results, dataframes, completed, idx>>
    /\ UNCHANGED <<config, weather_df, total_scenarios>>

\* variant: the last progress signal is emitted after the completion signal
FinalizeProgressLast ==
    /\ pc = "loop"
    /\ UNCHANGED aux
    /\ idx > Len(config.fert_scenarios)
    /\ emitted' = emitted \o <<Progress(95), Finished, Progress(100)>>
    /\ pc' = "done"
    /\ UNCHANGED <<config, weather_df, results, dataframes, total_scenarios,
                   completed, idx, engineCalls, outcomes, fatalOrigin>>

\* variant: a batch that gathered no result reports an error instead
FinalizeEmptyIsError ==
    /\ pc = "loop"
    /\ UNCHANGED aux
    /\ idx > Len(config.fert_scenarios)
    /\ emitted' = IF results = <<>>
                  THEN emitted \o <<Progress(95), Error>>
                  ELSE emitted \o <<Progress(95), Progress(100), Finished>>
    /\ pc' = "done"
    /\ UNCHANGED <<config, weather_df, results, dataframes, total_scenarios,
                   completed, idx, engineCalls, outcomes, fatalOrigin>>

\* progress 95, progress 100, finished(results, dataframes, weather_df, ...)
Finalize ==
    /\ pc = "loop"
    /\ UNCHANGED aux
    /\ idx > Len(config.fert_scenarios)
    /\ emitted' = emitted \o <<Progress(95), Progress(100), Finished>>
    /\ pc' = "done"
    /\ UNCHANGED <<config, weather_df, results, dataframes, total_scenarios,
                   completed, idx, engineCalls, outcomes, fatalOrigin>>

Next ==
    \/ ImportPCSE
    \/ GetConfiguration
    \/ LoadWeather
    \/ StoreWeatherData
    \/ SkipDisabled
    \/ RunScenario
    \/ Finalize

Spec == Init /\ [][Next]_vars

\* the same worker started on a catalog of at most MaxLiveScenarios scenarios
LiveInit ==
    /\ Init
    /\ Len(config.fert_scenarios) <= MaxLiveScenarios

\* run() is the body of a thread: it keeps being scheduled, and every call
\* it makes into pcse or the weather provider returns or raises
LiveSpec == LiveInit /\ [][Next]_vars /\ WF_vars(Next)

\* ------------------------------------------------------------------------
\* The loop body up to the engine constructor: agromanagement and parameters
\* ------------------------------------------------------------------------
\* datetime.date, as year, month, day
Date(y, m, d) == [year |-> y, month |-> m, day |-> d]

IsLeap(y) == (y % 4 = 0) /\ ((y % 100 # 0) \/ (y % 400 = 0))

DaysInMonth(y, m) ==
    IF m = 2 THEN (IF IsLeap(y) THEN 29 ELSE 28)
    ELSE IF m \in {4, 6, 9, 11} THEN 30 ELSE 31

\* the first day of the month after dt's
NextMonthStart(dt) ==
    IF dt.month < 12 THEN Date(dt.year, dt.month + 1, 1)
    ELSE Date(dt.year + 1, 1, 1)

\* date + timedelta(days=n), n >= 0: carried month by month
RECURSIVE AddDays(_, _)
AddDays(dt, n) ==
    IF dt.day + n <= DaysInMonth(dt.year, dt.month)
    THEN Date(dt.year, dt.month, dt.day + n)
    ELSE AddDays(NextMonthStart(dt),
                 n - (DaysInMonth(dt.year, dt.month) - dt.day + 1))

\* variant: the offset is counted in whole 30-day months plus days
AppDateByMonths(planting_date, days) ==
    LET m == planting_date.month + (days \div 30)
    IN  AddDays(Date(planting_date.year + ((m - 1) \div 12),
                     ((m - 1) % 12) + 1,
                     planting_date.day), days % 30)

\* app_date = planting_date + timedelta(days=days)
AppDate(planting_date, days) == AddDays(planting_date, days)

\* the value of timed_events: None, or a list of events
NoneEvents == [isNone |-> TRUE, events |-> <<>>]
ListOfEvents(evs) == [isNone |-> FALSE, events |-> evs]

\* one entry of timed_events, for application (days, amount, recovery) at
\* 0-based position i; recovery is kept in percent
TimedEvent(planting_date, i, app) ==
    [event_signal |-> "apply_n",
     name |-> i + 1,
     date |-> AppDate(planting_date, app[1]),
     N_amount |-> app[2],
     N_recovery |-> app[3]]

\* variant: timed_events starts as an empty list instead of None
BuildTimedEventsAlwaysList(planting_date, applications) ==
    ListOfEvents([i \in 1..Len(applications) |->
                    TimedEvent(planting_date, i - 1, applications[i])])

\* timed_events = None; if scenario["applications"]: timed_events = [...]
BuildTimedEvents(planting_date, applications) ==
    IF applications # <<>>
    THEN ListOfEvents([i \in 1..Len(applications) |->
                         TimedEvent(planting_date, i - 1, applications[i])])
    ELSE NoneEvents

\* planting_date = date(year, start_date.month, start_date.day)
PlantingDate(start_date) ==
    Date(start_date.year, start_date.month, start_date.day)

\* variant: the season ends one year after planting
EndDateAfterOneYear(year) == Date(year + 1, 12, 31)

\* end_date = date(year, 12, 31)
EndDate(year) == Date(year, 12, 31)

\* the agro dict handed to the engine
Agro(crop_name, crop_config, start_date, scenario) ==
    [campaign_start |-> PlantingDate(start_date),
     CropCalendar |->
        [crop_name |-> crop_name,
         crop_start_date |-> PlantingDate(start_date),
         crop_start_type |-> "emergence",
         crop_end_date |-> EndDate(start_date.year),
         crop_end_type |-> "earliest",
         max_duration |-> crop_config.season_days],
     TimedEvents |-> BuildTimedEvents(PlantingDate(start_date),
                                      scenario.applications)]

\* ParameterProvider(cropdata=cropd, ...): no override set yet
ParameterProvider(cd) ==
    [cropdata |-> cd, override |-> [n \in {} |-> 0]]

\* params.set_override(name, value)
SetOverride(params, name, value) ==
    [params EXCEPT !.override =
        [n \in (DOMAIN params.override) \cup {name} |->
            IF n = name THEN value ELSE params.override[n]]]

\* params[name]: an override wins over the catalog value
ParamValue(params, name) ==
    IF name \in DOMAIN params.override
    THEN params.override[name]
    ELSE params.cropdata[name]

\* variant: VERNDVS is left at its catalog value
VernOverrideTwoOnly(crop_config, params) ==
    IF crop_config.needs_vern_override
    THEN SetOverride(SetOverride(params, "VERNSAT", 0), "VERNBASE", 0)
    ELSE params

\* if crop_config.get("needs_vern_override"): three set_override calls
VernOverride(crop_config, params) ==
    IF crop_config.needs_vern_override
    THEN SetOverride(SetOverride(SetOverride(params, "VERNSAT", 0),
                                 "VERNBASE", 0), "VERNDVS", 0)
    ELSE params

\* planting dates explored: the spec's example, a leap-year February, and
\* a December date whose offsets run past the season end
StartDates == {Date(2023, 3, 15), Date(2024, 2, 20), Date(2023, 12, 10)}

\* (day offset, kg N/ha, recovery in percent), from DEFAULT_FERT_SCENARIOS
Applications == {<<0, 15, 70>>, <<30, 10, 60>>, <<50, 15, 60>>}

ApplicationLists == UNION {[1..n -> Applications] : n \in 0..MaxApps}

\* catalog values of the vernalization parameters (VERNDVS in tenths)
CropDataValues ==
    {[VERNSAT |-> 70, VERNBASE |-> 14, VERNDVS |-> 3],
     [VERNSAT |-> 0, VERNBASE |-> 0, VERNDVS |-> 0],
     [VERNSAT |-> 10, VERNBASE |-> 0, VERNDVS |-> 5]}

\* catalogs of two enabled scenarios with their application lists
BuildCatalogs ==
    { <<[key |-> "none", name |-> "No Fertilizer", enabled |-> "True",
         applications |-> a],
        [key |-> "low", name |-> "Low (25 kg N/ha)", enabled |-> "True",
         applications |-> b]>> :
        a \in ApplicationLists, b \in ApplicationLists }

\* a run that has reached the scenario loop, seen at the level of what each
\* scenario hands to the engine
BuildInit ==
    /\ config \in [crop : {"barley", "wheat", "potato"},
                   start_date : StartDates,
                   fert_scenarios : BuildCatalogs]
    /\ cropdata \in CropDataValues
    /\ pc = "build"
    /\ idx = 1
    /\ engineArgs = <<>>
    /\ weather_df = {}
    /\ results = <<>>
    /\ dataframes = EmptyTables
    /\ total_scenarios = 2
    /\ completed = 0
    /\ emitted = <<>>
    /\ engineCalls = <<>>
    /\ outcomes = <<>>
    /\ fatalOrigin = "none"
    /\ engineOut = NoEngineOut
    /\ weather = NoWeather
    /\ queried = <<>>
    /\ main_yield = 0
    /\ NoGui

\* lines 80-172 for the next scenario: the calendar, the parameters with
\* the vernalization override, and the engine constructor call
BuildScenario ==
    /\ pc = "build"
    /\ idx <= Len(config.fert_scenarios)
    /\ LET scenario == config.fert_scenarios[idx]
           crop_config == CROP_OPTIONS[config.crop]
           agro == Agro(config.crop, crop_config, config.start_date, scenario)
           params == VernOverride(crop_config, ParameterProvider(cropdata))
       IN  engineArgs' = Append(engineArgs, [key |-> scenario.key,
                                             params |-> params,
                                             agro |-> agro])
    /\ idx' = idx + 1
    /\ UNCHANGED <<config, pc, weather_df, results, dataframes,
                   total_scenarios, completed, emitted, engineCalls, outcomes,
                   fatalOrigin, cropdata, engineOut, weather, queried,
                   main_yield, gui>>

BuildNext == BuildScenario

BuildSpec == BuildInit /\ [][BuildNext]_vars

\* ------------------------------------------------------------------------
\* The inner try block after the engine run: yield, GDD columns, aggregation
\* ------------------------------------------------------------------------
\* Temperatures are whole degrees; a daily GDD (tmax + tmin) / 2 - tbase is
\* kept doubled, in half degrees, and yields are kept in tenths of kg/ha, so
\* that the halves and the 0.4 / 0.5 fractions stay integers.
Max(a, b) == IF a >= b THEN a ELSE b

\* tbase = 0.0
tbase == 0

\* variant: the daily value is not clamped at zero
DailyGDDUnclamped(wdata) == (wdata.TMAX + wdata.TMIN) - (2 * tbase)

\* daily_gdd = max(0.0, (tmax + tmin) / 2.0 - tbase), doubled
DailyGDD(wdata) == Max(0, (wdata.TMAX + wdata.TMIN) - (2 * tbase))

\* variant: the lookup is made outside the inner try, so its exception
\* leaves the GDD loop
LookupUncaught(answer) ==
    [raised |-> ~ answer.ok,
     daily_gdd |-> IF answer.ok THEN DailyGDD(answer) ELSE 0]

\* the inner try/except of the GDD loop: a failed lookup gives daily_gdd 0.0
Lookup(answer) ==
    [raised |-> FALSE,
     daily_gdd |-> IF answer.ok THEN DailyGDD(answer) ELSE 0]

\* for d in df['day']: ... ; acc carries cumulative_gdd, the two lists and
\* the dates asked so far, and stops at an exception that leaves the loop
RECURSIVE GDDLoop(_, _, _)
GDDLoop(days, w, acc) ==
    IF days = <<>> \/ acc.raised THEN acc
    ELSE LET r == Lookup(w[Head(days)])
             cum == acc.cumulative_gdd + r.daily_gdd
         IN  GDDLoop(Tail(days), w,
                 IF r.raised
                 THEN [acc EXCEPT !.raised = TRUE,
                                  !.asked = Append(acc.asked, Head(days))]
                 ELSE [raised |-> FALSE,
                       cumulative_gdd |-> cum,
                       gdd_list |-> Append(acc.gdd_list, cum),
                       daily_gdd_list |-> Append(acc.daily_gdd_list, r.daily_gdd),
                       asked |-> Append(acc.asked, Head(days))])

\* variant: cumulative_gdd is set to 0.0 once, before the scenario loop, so
\* a scenario goes on from the total of the scenario aggregated before it
GDDStartCarried ==
    [raised |-> FALSE,
     cumulative_gdd |->
        IF results = <<>> THEN 0
        ELSE results[Len(results)].df.GDD[Len(results[Len(results)].df.GDD)],
     gdd_list |-> <<>>, daily_gdd_list |-> <<>>, asked |-> <<>>]

\* gdd_list = []; daily_gdd_list = []; cumulative_gdd = 0.0
GDDStart ==
    [raised |-> FALSE, cumulative_gdd |-> 0, gdd_list |-> <<>>,
     daily_gdd_list |-> <<>>, asked |-> <<>>]

\* s.get(name, 0)
SummaryGet(s, name) == IF s[name].present THEN s[name].value ELSE 0

\* variant: a zero storage-organ mass is taken as the yield
MainYieldZeroAccepted(crop, s) ==
    IF SummaryGet(s, "TWSO") >= 0
    THEN 10 * SummaryGet(s, "TWSO")
    ELSE IF IsRootTuber(crop) THEN 5 * SummaryGet(s, "TAGP")
         ELSE 4 * SummaryGet(s, "TAGP")

\* main_yield, in tenths of kg/ha
MainYield(crop, s) ==
    LET grain_yield == SummaryGet(s, "TWSO")
    IN  IF IsRootTuber(crop)
        THEN (IF grain_yield > 0 THEN 10 * grain_yield
              ELSE 5 * SummaryGet(s, "TAGP"))
        ELSE (IF grain_yield > 0 THEN 10 * grain_yield
              ELSE 4 * SummaryGet(s, "TAGP"))

\* variant: the tonnes are obtained by floor division
FloorDiv(a, b) == [num |-> a \div b, den |-> 1]

\* a / b, Python's true division: the quotient as a fraction num / den
TrueDiv(a, b) == [num |-> a, den |-> b]

\* df = pd.DataFrame(output): the day column, no GDD columns yet
OutputTable(key, days) ==
    [key |-> key, day |-> days, hasGDD |-> FALSE,
     GDD |-> <<>>, daily_GDD |-> <<>>]

\* df['GDD'] = gdd_list; df['daily_GDD'] = daily_gdd_list
AttachGDD(df, loop) ==
    [df EXCEPT !.hasGDD = TRUE, !.GDD = loop.gdd_list,
               !.daily_GDD = loop.daily_gdd_list]

\* the statements of the inner try after model.get_summary_output(), for the
\* scenario and what its engine run returned: what is appended to results,
\* what is stored in dataframes, and whether an exception reached the except
TryBlock(crop, scenario, out, w) ==
    LET df == OutputTable(scenario.key, out.day)
        none == [class |-> "empty_summary", append |-> <<>>, store |-> <<>>,
                 asked |-> <<>>, main_yield |-> 0, hasYield |-> FALSE]
    IN  IF out.summary = <<>> THEN none
        ELSE
          LET s == out.summary[1]
              my == MainYield(crop, s)
          IN  IF IsRootTuber(crop)
              THEN [class |-> "ok", append |-> <<>>, store |-> <<df>>,
                    asked |-> <<>>, main_yield |-> my, hasYield |-> TRUE]
              ELSE IF out.day = <<>>
              THEN \* df['day'] on a table without columns raises KeyError
                   [class |-> "raised", append |-> <<>>, store |-> <<>>,
                    asked |-> <<>>, main_yield |-> my, hasYield |-> TRUE]
              ELSE
                LET loop == GDDLoop(out.day, w, GDDStart)
                    full == AttachGDD(df, loop)
                IN  IF loop.raised
                    THEN [class |-> "raised", append |-> <<>>, store |-> <<>>,
                          asked |-> loop.asked, main_yield |-> my,
                          hasYield |-> TRUE]
                    ELSE [class |-> "ok",
                          append |-> <<[scenario_key |-> scenario.key,
                                        scenario |-> scenario.name,
                                        df |-> full,
                                        yield_kg |-> my,
                                        yield_t |-> TrueDiv(my, 1000),
                                        tagp |-> SummaryGet(s, "TAGP")]>>,
                          store |-> <<full>>,
                          asked |-> loop.asked, main_yield |-> my,
                          hasYield |-> TRUE]

\* answers of the weather provider for one date: failure, a warm day, a day
\* with an odd temperature sum, a frost day
WeatherAnswers ==
    {[ok |-> FALSE, TMAX |-> 0, TMIN |-> 0],
     [ok |-> TRUE, TMAX |-> 26, TMIN |-> 12],
     [ok |-> TRUE, TMAX |-> 25, TMIN |-> 12],
     [ok |-> TRUE, TMAX |-> 2, TMIN |-> -8]}

Absent == [present |-> FALSE, value |-> 0]
Present(v) == [present |-> TRUE, value |-> v]

\* summaries the engine may return: none, or one record whose TWSO and TAGP
\* entries may be missing
Summaries ==
    {<<>>} \cup
    { <<[TWSO |-> t, TAGP |-> a]>> :
        t \in {Absent, Present(-10), Present(0), Present(4321)},
        a \in {Absent, Present(9000)} }

\* output day sequences: the first n dates of the season
EngineOutputs ==
    [day : {[i \in 1..n |-> i] : n \in 0..YearDays}, summary : Summaries]

AggCatalog ==
    <<[key |-> "none", name |-> "No Fertilizer", enabled |-> "True"],
      [key |-> "low", name |-> "Low (25 kg N/ha)", enabled |-> "True"]>>

\* the same catalog, and the one whose first scenario is disabled
AggCatalogs == {AggCatalog, [AggCatalog EXCEPT ![1].enabled = "False"]}

\* a run that has reached the scenario loop, seen at the level of what
\* happens to each engine output
AggInit ==
    /\ config \in [crop : {"barley", "potato"}, fert_scenarios : AggCatalogs]
    /\ weather \in [Days -> WeatherAnswers]
    /\ pc = "aggregate"
    /\ idx = 1
    /\ results = <<>>
    /\ dataframes = [n \in {} |-> OutputTable("none", <<>>)]
    /\ total_scenarios = CountEnabled(config.fert_scenarios)
    /\ completed = 0
    /\ weather_df = {}
    /\ emitted = <<>>
    /\ engineCalls = <<>>
    /\ outcomes = <<>>
    /\ fatalOrigin = "none"
    /\ cropdata = NoCropData
    /\ engineArgs = <<>>
    /\ engineOut = NoEngineOut
    /\ queried = <<>>
    /\ main_yield = 0
    /\ NoGui

\* if not scenario.get("enabled", True): continue
AggSkipDisabled ==
    /\ pc = "aggregate"
    /\ idx <= Len(config.fert_scenarios)
    /\ ~ Enabled(config.fert_scenarios[idx])
    /\ idx' = idx + 1
    /\ UNCHANGED <<config, pc, weather_df, results, dataframes,
                   total_scenarios, completed, emitted, engineCalls,
                   outcomes, fatalOrigin, aux>>

\* lines 175-243 for the next scenario, whose engine run has returned
AggregateScenario ==
    /\ pc = "aggregate"
    /\ idx <= Len(config.fert_scenarios)
    /\ Enabled(config.fert_scenarios[idx])
    /\ \E out \in EngineOutputs :
        LET scenario == config.fert_scenarios[idx]
            t == TryBlock(config.crop, scenario, out, weather)
        IN  /\ engineOut' = out
            /\ engineCalls' = Append(engineCalls, scenario.key)
            /\ results' = results \o t.append
            /\ dataframes' =
                  IF t.store = <<>> THEN dataframes
                  ELSE [n \in (DOMAIN dataframes) \cup {scenario.name} |->
                          IF n = scenario.name THEN t.store[1]
                          ELSE dataframes[n]]
            /\ queried' = t.asked
            /\ main_yield' = IF t.hasYield THEN t.main_yield ELSE main_yield
            /\ outcomes' = Append(outcomes, [key |-> scenario.key,
                                             class |-> t.class])
    /\ completed' = completed + 1
    /\ idx' = idx + 1
    /\ UNCHANGED <<config, pc, weather_df, total_scenarios, emitted,
                   fatalOrigin, cropdata, engineArgs, weather, gui>>

AggNext ==
    \/ AggSkipDisabled
    \/ AggregateScenario

AggSpec == AggInit /\ [][AggNext]_vars

\* ------------------------------------------------------------------------
\* The main window, its fertilizer dialog and the workers it starts
\* ------------------------------------------------------------------------
\* A scenario set is a dict of dicts. heap.outer[o] is the dict object o:
\* for each key position, the record object it holds; heap.inner[r] is the
\* record object r. Object 1 is DEFAULT_FERT_SCENARIOS.
DialogKeys == <<"none", "low">>
NKeys == Len(DialogKeys)

DefaultHeap ==
    [outer |-> <<[i \in 1..NKeys |-> i]>>,
     inner |-> [i \in 1..NKeys |-> [key |-> DialogKeys[i], enabled |-> TRUE]]]

\* variant: dict(fert_scenarios), a new dict holding the same records
ShareRecords(h, src) ==
    [outer |-> Append(h.outer, h.outer[src]), inner |-> h.inner]

\* {k: v.copy() for k, v in fert_scenarios.items()}: a new dict of new
\* records; the new dict is object Len(h.outer) + 1
CopyScenarios(h, src) ==
    [outer |-> Append(h.outer, [i \in 1..NKeys |-> Len(h.inner) + i]),
     inner |-> h.inner \o [i \in 1..NKeys |-> h.inner[h.outer[src][i]]]]

\* what a reader of the dict object o sees
Value(h, o) == [i \in 1..NKeys |-> h.inner[h.outer[o][i]]]

\* the variables of a worker's run(), which the window does not touch
batch == <<config, pc, weather_df, results, dataframes, total_scenarios,
           completed, idx, emitted, engineCalls, outcomes, fatalOrigin,
           cropdata, engineArgs, engineOut, weather, queried, main_yield>>

\* MainWindow.__init__
WindowInit ==
    /\ pc = "window"
    /\ heap = CopyScenarios(DefaultHeap, 1)
    /\ window = [fert_scenarios |-> 2, run_btn |-> TRUE, statusbar |-> "Ready"]
    /\ dialog = NoDialog
    /\ workers = <<>>
    /\ signals = <<>>
    /\ config = [crop |-> "barley", fert_scenarios |-> <<>>]
    /\ weather_df = {}
    /\ results = <<>>
    /\ dataframes = EmptyTables
    /\ total_scenarios = 0
    /\ completed = 0
    /\ idx = 1
    /\ emitted = <<>>
    /\ engineCalls = <<>>
    /\ outcomes = <<>>
    /\ fatalOrigin = "none"
    /\ cropdata = NoCropData
    /\ engineArgs = <<>>
    /\ engineOut = NoEngineOut
    /\ weather = NoWeather
    /\ queried = <<>>
    /\ main_yield = 0

\* _show_fert_settings up to dialog.exec_(): the dialog copies the window's
\* scenario set and runs modally; `opened_on` remembers what the window's
\* set was at that moment
ShowFertSettings ==
    /\ pc = "window"
    /\ ~ dialog.open
    /\ Len(heap.outer) < 2 + MaxCopies
    /\ heap' = CopyScenarios(heap, window.fert_scenarios)
    /\ dialog' = [open |-> TRUE, fert_scenarios |-> Len(heap.outer) + 1,
                  opened_on |-> Value(heap, window.fert_scenarios)]
    /\ UNCHANGED <<window, workers, signals>>
    /\ UNCHANGED batch

\* a checkbox of the dialog changes state: _toggle_enabled(key, state)
ToggleEnabled ==
    /\ pc = "window"
    /\ dialog.open
    /\ \E i \in 1..NKeys, state \in {"Checked", "Unchecked"} :
        LET rec == heap.outer[dialog.fert_scenarios][i]
        IN  /\ heap.inner[rec].enabled # (state = "Checked")
            /\ heap' = [heap EXCEPT !.inner[rec].enabled = (state = "Checked")]
    /\ UNCHANGED <<window, dialog, workers, signals>>
    /\ UNCHANGED batch

\* _reset_defaults
ResetDefaults ==
    /\ pc = "window"
    /\ dialog.open
    /\ Len(heap.outer) < 2 + MaxCopies
    /\ heap' = CopyScenarios(heap, 1)
    /\ dialog' = [dialog EXCEPT !.fert_scenarios = Len(heap.outer) + 1]
    /\ UNCHANGED <<window, workers, signals>>
    /\ UNCHANGED batch

\* exec_() returns Accepted: self.fert_scenarios = dialog.get_scenarios()
AcceptDialog ==
    /\ pc = "window"
    /\ dialog.open
    /\ window' = [window EXCEPT !.fert_scenarios = dialog.fert_scenarios,
                                !.statusbar = "Fertilizer scenarios updated"]
    /\ dialog' = NoDialog
    /\ UNCHANGED <<workers, signals, heap>>
    /\ UNCHANGED batch

\* exec_() returns Rejected
RejectDialog ==
    /\ pc = "window"
    /\ dialog.open
    /\ dialog' = NoDialog
    /\ UNCHANGED <<window, workers, signals, heap>>
    /\ UNCHANGED batch

\* variant: the Run control is left enabled while the batch runs
RunSimulationKeepsEnabled ==
    /\ pc = "window"
    /\ window.run_btn
    /\ ~ dialog.open
    /\ Len(workers) < MaxBatches
    /\ workers' = Append(workers,
                    [state |-> "running",
                     fert_scenarios |-> window.fert_scenarios,
                     captured |-> Value(heap, window.fert_scenarios)])
    /\ UNCHANGED <<window, dialog, signals, heap>>
    /\ UNCHANGED batch

\* _run_simulation, the slot of run_btn.clicked: a disabled button emits no
\* click, and a modal dialog keeps clicks from the window. The worker's
\* config holds the window's scenario set itself; `captured` remembers what
\* that set was when the batch was started.
RunSimulation ==
    /\ pc = "window"
    /\ window.run_btn
    /\ ~ dialog.open
    /\ Len(workers) < MaxBatches
    /\ window' = [window EXCEPT !.run_btn = FALSE]
    /\ workers' = Append(workers,
                    [state |-> "running",
                     fert_scenarios |-> window.fert_scenarios,
                     captured |-> Value(heap, window.fert_scenarios)])
    /\ UNCHANGED <<dialog, signals, heap>>
    /\ UNCHANGED batch

\* the ends of run(): finished.emit(results, ...) with or without results,
\* or error.emit(...); the signal is queued for the main thread
WorkerEnds == {"finished", "finished_empty", "error"}

\* a worker thread reaches the last statement of run()
WorkerRun ==
    /\ pc = "window"
    /\ \E i \in DOMAIN workers, end \in WorkerEnds :
        /\ workers[i].state = "running"
        /\ workers' = [workers EXCEPT ![i].state = end]
        /\ signals' = Append(signals, [signal |-> end, worker |-> i])
    /\ UNCHANGED <<window, dialog, heap>>
    /\ UNCHANGED batch

\* _on_simulation_finished
OnSimulationFinished ==
    /\ pc = "window"
    /\ signals # <<>>
    /\ Head(signals).signal \in {"finished", "finished_empty"}
    /\ window' = [window EXCEPT
                    !.run_btn = TRUE,
                    !.statusbar = IF Head(signals).signal = "finished"
                                  THEN "Simulation complete"
                                  ELSE "Simulation completed with no results"]
    /\ signals' = Tail(signals)
    /\ UNCHANGED <<dialog, workers, heap>>
    /\ UNCHANGED batch

\* _on_simulation_error
OnSimulationError ==
    /\ pc = "window"
    /\ signals # <<>>
    /\ Head(signals).signal = "error"
    /\ window' = [window EXCEPT !.run_btn = TRUE,
                                !.statusbar = "Simulation failed"]
    /\ signals' = Tail(signals)
    /\ UNCHANGED <<dialog, workers, heap>>
    /\ UNCHANGED batch

WindowNext ==
    \/ ShowFertSettings
    \/ ToggleEnabled
    \/ ResetDefaults
    \/ AcceptDialog
    \/ RejectDialog
    \/ RunSimulation
    \/ WorkerRun
    \/ OnSimulationFinished
    \/ OnSimulationError

WindowSpec == WindowInit /\ [][WindowNext]_vars

\* a started thread runs to the end of run(), and the event loop of the main
\* thread delivers every queued signal; what the user does is not forced
WindowLiveSpec ==
    /\ WindowInit
    /\ [][WindowNext]_vars
    /\ WF_vars(WorkerRun)
    /\ WF_vars(OnSimulationFinished)
    /\ WF_vars(OnSimulationError)

\* ------------------------------------------------------------------------
\* Vocabulary of the properties
\* ------------------------------------------------------------------------
\* number of signals of one kind emitted so far
Count(sig) == Cardinality({i \in DOMAIN emitted : emitted[i].signal = sig})

\* the percent values of the progress signals, in emission order
RECURSIVE PctOf(_)
PctOf(em) ==
    IF em = <<>> THEN <<>>
    ELSE IF Head(em).signal = "progress"
         THEN <<Head(em).value>> \o PctOf(Tail(em))
         ELSE PctOf(Tail(em))

SetupSteps == {"import", "config", "weather", "table"}
SetupFailed == fatalOrigin \in SetupSteps
SetupSucceeded == pc \in {"loop", "done"} /\ ~ SetupFailed
RunEnded == pc = "done"

\* a scenario the catalog marks enabled (a missing flag reads as enabled)
FlaggedOn(s) == s.enabled \in {"True", "absent"}
KeysOf(seq) == [i \in 1..Len(seq) |-> seq[i].key]
EnabledKeys == KeysOf(SelectSeq(config.fert_scenarios, FlaggedOn))
NEnabled == Len(EnabledKeys)

HasClass(o, cls) == o.class \in cls
OutcomesOf(cls) == {i \in DOMAIN outcomes : outcomes[i].class \in cls}
IsOk(o) == o.class = "ok"
NonDecreasing(seq) == \A i \in 1..(Len(seq) - 1) : seq[i] <= seq[i + 1]

\* ------------------------------------------------------------------------
\* C1: once setup has succeeded, an exception raised at any step of a
\* scenario's processing inside the loop is caught at the scenario boundary:
\* the run emits no fatal error, processes every enabled scenario and ends
\* with the completion signal.
\* ------------------------------------------------------------------------
C1_ScenarioExceptionsIsolated ==
    (RunEnded /\ SetupSucceeded) =>
        /\ Count("error") = 0
        /\ Len(outcomes) = NEnabled
        /\ emitted[Len(emitted)] = Finished

\* ------------------------------------------------------------------------
\* C2: if exactly one of the N enabled scenarios raises inside the engine
\* steps and the other N-1 complete normally, the completion signal is
\* emitted without a fatal error and the result list has N-1 entries.
\* ------------------------------------------------------------------------
C2_OneFailureLeavesNMinusOne ==
    (/\ RunEnded
     /\ Len(outcomes) = NEnabled
     /\ Cardinality(OutcomesOf({"raised"})) = 1
     /\ Cardinality(OutcomesOf({"ok"})) = NEnabled - 1) =>
        /\ Count("finished") = 1
        /\ Count("error") = 0
        /\ Len(results) = NEnabled - 1

\* ------------------------------------------------------------------------
\* C3: for every crop, each enabled scenario whose engine run completes
\* with a non-empty summary contributes exactly one ScenarioResult, and the
\* result list is in catalog order of those scenarios.
\* ------------------------------------------------------------------------
C3_EveryCompletedRunContributes ==
    (RunEnded /\ Count("finished") = 1) =>
        [i \in 1..Len(results) |-> results[i].scenario_key]
            = KeysOf(SelectSeq(outcomes, IsOk))

\* ------------------------------------------------------------------------
\* C4: every table in the output-table map at batch completion carries the
\* cumulative and the daily GDD column, for every crop.
\* ------------------------------------------------------------------------
C4_StoredTablesCarryGDD ==
    (RunEnded /\ Count("finished") = 1) =>
        \A n \in DOMAIN dataframes :
            dataframes[n].GDD /\ dataframes[n].daily_GDD

\* ------------------------------------------------------------------------
\* C5: a failure in shared setup aborts the run: exactly one fatal-error
\* signal, no completion signal, and the engine is never invoked.
\* ------------------------------------------------------------------------
C5_SetupFailureAborts ==
    SetupFailed =>
        /\ RunEnded
        /\ Count("error") = 1
        /\ Count("finished") = 0
        /\ engineCalls = <<>>
        /\ results = <<>>
        /\ DOMAIN dataframes = {}

C5_Witness ==
    /\ fatalOrigin = "weather"
    /\ RunEnded
    /\ NEnabled >= 1
    /\ Count("error") = 1

\* ------------------------------------------------------------------------
\* C6: if setup succeeds the run ends with the completion signal even when
\* every enabled scenario fails; the completion then carries an empty result
\* list and an empty output-table map, and no fatal error is emitted.
\* ------------------------------------------------------------------------
C6_CompletesWhenAllFail ==
    (/\ RunEnded
     /\ SetupSucceeded
     /\ Len(outcomes) = NEnabled
     /\ \A i \in DOMAIN outcomes : outcomes[i].class \in {"build", "raised"}) =>
        /\ Count("finished") = 1
        /\ Count("error") = 0
        /\ results = <<>>
        /\ DOMAIN dataframes = {}

\* ------------------------------------------------------------------------
\* C7: a scenario that fails adds no ScenarioResult and no output-table
\* entry, and leaves the results and tables accumulated so far unchanged.
\* ------------------------------------------------------------------------
C7_FailedScenarioLeavesAccumulated ==
    [][(/\ Len(outcomes') = Len(outcomes) + 1
        /\ outcomes'[Len(outcomes')].class \in {"build", "raised"}) =>
            (results' = results /\ dataframes' = dataframes)]_vars

C7_Witness ==
    /\ Len(outcomes) >= 2
    /\ outcomes[Len(outcomes)].class = "raised"
    /\ results # <<>>
    /\ DOMAIN dataframes # {}

\* ------------------------------------------------------------------------
\* C8: over a whole run whose scenarios are processed, the emitted percent
\* sequence is non-decreasing and its last value is 100, however many of the
\* enabled scenarios fail and wherever they stand.
\* ------------------------------------------------------------------------
C8_ProgressMonotoneEndsAt100 ==
    (RunEnded /\ SetupSucceeded) =>
        /\ NonDecreasing(PctOf(emitted))
        /\ PctOf(emitted)[Len(PctOf(emitted))] = 100

\* ------------------------------------------------------------------------
\* C9: on a run whose setup succeeds with N >= 1 enabled scenarios the
\* percent sequence is exactly 5, 15, 20 + floor(70*k/N) for k = 0..N-1,
\* 95, 100; the in-loop values lie in [20, 90] and every progress signal
\* precedes the completion signal.
\* ------------------------------------------------------------------------
C9_ExactProgressSequence ==
    (RunEnded /\ SetupSucceeded /\ NEnabled >= 1) =>
        /\ PctOf(emitted) =
              <<5, 15>>
              \o [k \in 1..NEnabled |-> 20 + ((70 * (k - 1)) \div NEnabled)]
              \o <<95, 100>>
        /\ \A i \in 3..(Len(PctOf(emitted)) - 2) :
              PctOf(emitted)[i] >= 20 /\ PctOf(emitted)[i] <= 90
        /\ emitted[Len(emitted)] = Finished
        /\ \A i \in 1..(Len(emitted) - 1) : emitted[i].signal = "progress"

\* ------------------------------------------------------------------------
\* C10: when no batch-fatal failure occurs the engine is invoked exactly
\* once per enabled scenario, in catalog order, and never for a scenario
\* whose enabled flag is false.
\* ------------------------------------------------------------------------
C10_OneEngineCallPerEnabledScenario ==
    /\ (RunEnded /\ Count("error") = 0) => engineCalls = EnabledKeys
    /\ \A i \in DOMAIN engineCalls :
          \A j \in DOMAIN config.fert_scenarios :
              config.fert_scenarios[j].key = engineCalls[i] =>
                  config.fert_scenarios[j].enabled # "False"

C10_Witness ==
    /\ RunEnded
    /\ Count("finished") = 1
    /\ Len(config.fert_scenarios) = 3
    /\ config.fert_scenarios[2].enabled = "False"
    /\ engineCalls = <<"none", "medium">>

\* ------------------------------------------------------------------------
\* C11: every started batch eventually delivers exactly one terminal signal,
\* completion or fatal error and never both, and no progress signal is
\* emitted after the terminal one.
\* ------------------------------------------------------------------------
Terminals == Count("finished") + Count("error")

C11_OneTerminalEvent ==
    /\ <>(RunEnded /\ Terminals = 1)
    /\ [](Terminals <= 1)
    /\ [](\A i \in DOMAIN emitted :
            emitted[i].signal # "progress" => i = Len(emitted))

C11_Witness ==
    /\ RunEnded
    /\ Terminals = 1
    /\ Len(outcomes) = 2
    /\ emitted[Len(emitted)] = Finished

\* ------------------------------------------------------------------------
\* Vocabulary of the calendar properties
\* ------------------------------------------------------------------------
\* proleptic Gregorian ordinal of a date (day 1 is 0001-01-01)
DaysBeforeYear(y) ==
    ((y - 1) * 365) + ((y - 1) \div 4) - ((y - 1) \div 100) + ((y - 1) \div 400)

RECURSIVE DaysBeforeMonth(_, _)
DaysBeforeMonth(y, m) ==
    IF m = 1 THEN 0 ELSE DaysBeforeMonth(y, m - 1) + DaysInMonth(y, m - 1)

Ordinal(dt) == DaysBeforeYear(dt.year) + DaysBeforeMonth(dt.year, dt.month) + dt.day

ValidDate(dt) ==
    /\ dt.month \in 1..12
    /\ dt.day \in 1..DaysInMonth(dt.year, dt.month)

\* the scenario the i-th engine construction was made for
ArgScenario(i) == config.fert_scenarios[i]
ArgEvents(i) == engineArgs[i].agro.TimedEvents
EventDates(i) == [j \in 1..Len(ArgEvents(i).events) |-> ArgEvents(i).events[j].date]
Offsets(apps) == [j \in 1..Len(apps) |-> apps[j][1]]
VernNames == {"VERNSAT", "VERNBASE", "VERNDVS"}

\* ------------------------------------------------------------------------
\* C12: a scenario with an empty application list hands the engine a
\* calendar whose timed-events entry is None, never an empty list; a scenario
\* with k >= 1 applications hands it a list of exactly k events.
\* ------------------------------------------------------------------------
C12_NoApplicationsMeansNone ==
    \A i \in DOMAIN engineArgs :
        LET apps == ArgScenario(i).applications
        IN  /\ (apps = <<>>) => ArgEvents(i) = NoneEvents
            /\ (Len(apps) >= 1) =>
                  (~ ArgEvents(i).isNone /\ Len(ArgEvents(i).events) = Len(apps))

C12_Witness ==
    /\ Len(engineArgs) = 2
    /\ ArgScenario(1).applications = <<>>
    /\ ArgEvents(1).isNone
    /\ Len(ArgScenario(2).applications) = 2
    /\ Len(ArgEvents(2).events) = 2

\* ------------------------------------------------------------------------
\* C13: the i-th timed event is dated planting date + d days and carries the
\* amount and recovery of the i-th application; events keep the input order
\* even when offsets are not ascending (planting 2023-03-15 with offsets 0
\* and 30 gives 2023-03-15 and 2023-04-14).
\* ------------------------------------------------------------------------
C13_EventDatesFollowOffsets ==
    \A i \in DOMAIN engineArgs :
        LET apps == ArgScenario(i).applications
            evs == ArgEvents(i).events
        IN  /\ \A j \in 1..Len(apps) :
                  /\ j <= Len(evs)
                  /\ ValidDate(evs[j].date)
                  /\ Ordinal(evs[j].date) = Ordinal(config.start_date) + apps[j][1]
                  /\ evs[j].N_amount = apps[j][2]
                  /\ evs[j].N_recovery = apps[j][3]
            /\ (config.start_date = Date(2023, 3, 15)
                    /\ Offsets(apps) = <<0, 30>>) =>
                  EventDates(i) = <<Date(2023, 3, 15), Date(2023, 4, 14)>>

C13_Witness ==
    /\ Len(engineArgs) = 2
    /\ config.start_date = Date(2023, 3, 15)
    /\ Offsets(ArgScenario(1).applications) = <<50, 0>>
    /\ EventDates(1) = <<Date(2023, 5, 4), Date(2023, 3, 15)>>
    /\ Offsets(ArgScenario(2).applications) = <<0, 30>>
    /\ EventDates(2) = <<Date(2023, 3, 15), Date(2023, 4, 14)>>

\* ------------------------------------------------------------------------
\* C14: for every scenario of a batch the calendar ends on December 31 of
\* the planting year with end type "earliest", its max duration is the crop
\* profile's season length and it starts on the configured planting date;
\* these values are the same for all scenarios of the batch.
\* ------------------------------------------------------------------------
C14_SeasonEndsAtYearEnd ==
    \A i \in DOMAIN engineArgs :
        LET cal == engineArgs[i].agro.CropCalendar
        IN  /\ cal.crop_end_date.year = config.start_date.year
            /\ cal.crop_end_date.month = 12
            /\ cal.crop_end_date.day = 31
            /\ cal.crop_end_type = "earliest"
            /\ cal.max_duration = CROP_OPTIONS[config.crop].season_days
            /\ cal.crop_start_date = config.start_date
            /\ \A j \in DOMAIN engineArgs :
                  engineArgs[j].agro.CropCalendar = cal

C14_Witness ==
    /\ Len(engineArgs) = 2
    /\ config.crop = "wheat"
    /\ config.start_date = Date(2023, 12, 10)
    /\ engineArgs[2].agro.CropCalendar.crop_end_date = Date(2023, 12, 31)
    /\ engineArgs[2].agro.CropCalendar.max_duration = 150
    /\ ArgScenario(1).applications # ArgScenario(2).applications

\* ------------------------------------------------------------------------
\* C15: when the crop profile sets the vernalization-override flag, VERNSAT,
\* VERNBASE and VERNDVS are overridden to 0 in the parameters the engine is
\* constructed with, for every scenario and whatever the catalog values;
\* without the flag none of the three is overridden.
\* ------------------------------------------------------------------------
C15_VernalizationOverride ==
    \A i \in DOMAIN engineArgs :
        LET p == engineArgs[i].params
        IN  IF config.crop = "wheat"
            THEN \A n \in VernNames :
                    n \in DOMAIN p.override /\ ParamValue(p, n) = 0
            ELSE \A n \in VernNames :
                    n \notin DOMAIN p.override /\ ParamValue(p, n) = cropdata[n]

C15_Witness ==
    /\ Len(engineArgs) = 2
    /\ config.crop = "wheat"
    /\ cropdata.VERNSAT = 70
    /\ cropdata.VERNDVS = 3
    /\ ParamValue(engineArgs[1].params, "VERNDVS") = 0
    /\ ParamValue(engineArgs[2].params, "VERNSAT") = 0

\* ------------------------------------------------------------------------
\* Vocabulary of the aggregation properties
\* ------------------------------------------------------------------------
\* the scenario processed last, and the table stored for the i-th scenario
LastScenario == config.fert_scenarios[idx - 1]
LastOutcome == outcomes[Len(outcomes)]
ScenarioOfKey(k) ==
    CHOOSE sc \in {config.fert_scenarios[j] : j \in DOMAIN config.fert_scenarios} :
        sc.key = k
TableOfRun(i) == dataframes[ScenarioOfKey(outcomes[i].key).name]

\* daily GDD of a date as the specification states it, doubled
ExpectedDaily(answer) ==
    IF answer.ok /\ answer.TMAX + answer.TMIN > 0
    THEN answer.TMAX + answer.TMIN
    ELSE 0

RECURSIVE SumTo(_, _)
SumTo(seq, i) == IF i = 0 THEN 0 ELSE SumTo(seq, i - 1) + seq[i]

RECURSIVE SumOverOkDays(_)
SumOverOkDays(days) ==
    IF days = <<>> THEN 0
    ELSE (IF weather[Head(days)].ok
          THEN Max(0, weather[Head(days)].TMAX + weather[Head(days)].TMIN)
          ELSE 0) + SumOverOkDays(Tail(days))

\* main yield as the specification states it, in tenths of kg/ha
ExpectedYield(crop, s) ==
    LET twso == IF s.TWSO.present THEN s.TWSO.value ELSE 0
        tagp == IF s.TAGP.present THEN s.TAGP.value ELSE 0
    IN  IF twso > 0 THEN 10 * twso
        ELSE IF crop \in {"potato", "cassava", "sweetpotato"}
             THEN 5 * tagp ELSE 4 * tagp

\* ------------------------------------------------------------------------
\* C16: for every successful scenario run, of any crop, the cumulative GDD
\* series is non-decreasing and has the length of the run's output day
\* sequence, aligned with it index by index.
\* ------------------------------------------------------------------------
C16_CumulativeGDDAligned ==
    \A i \in DOMAIN outcomes :
        outcomes[i].class = "ok" =>
            /\ TableOfRun(i).hasGDD
            /\ Len(TableOfRun(i).GDD) = Len(TableOfRun(i).day)
            /\ NonDecreasing(TableOfRun(i).GDD)

\* ------------------------------------------------------------------------
\* C17: a weather lookup that fails inside the GDD computation never
\* escalates: whatever dates fail, the scenario still yields its
\* ScenarioResult and its table, every date of the output is still asked
\* for, and the batch goes on.
\* ------------------------------------------------------------------------
C17_LookupFailureNeverEscalates ==
    (idx > 1 /\ \E j \in DOMAIN queried : ~ weather[queried[j]].ok) =>
        /\ LastOutcome.class = "ok"
        /\ results # <<>>
        /\ results[Len(results)].scenario_key = LastScenario.key
        /\ LastScenario.name \in DOMAIN dataframes
        /\ dataframes[LastScenario.name].key = LastScenario.key
        /\ queried = engineOut.day
        /\ completed = Len(outcomes)
        /\ fatalOrigin = "none"
        /\ pc = "aggregate"

C17_Witness ==
    /\ \A d \in Days : ~ weather[d].ok
    /\ Len(outcomes) = 2
    /\ Len(results) = 2
    /\ Len(queried) >= 2
    /\ queried = engineOut.day
    /\ DOMAIN dataframes = {"No Fertilizer", "Low (25 kg N/ha)"}

\* ------------------------------------------------------------------------
\* C18: the cumulative GDD at index i is the sum of the daily GDD of days
\* 0..i, where a day's GDD is max(0, (tmax + tmin)/2) when its lookup
\* succeeds and 0 when it fails, so the final total is the sum over the
\* days whose lookup succeeded.
\* ------------------------------------------------------------------------
C18_CumulativeIsRunningSum ==
    \A n \in DOMAIN dataframes :
        dataframes[n].hasGDD =>
            LET df == dataframes[n]
            IN  /\ \A i \in 1..Len(df.day) :
                      /\ df.daily_GDD[i] = ExpectedDaily(weather[df.day[i]])
                      /\ df.GDD[i] = SumTo(df.daily_GDD, i)
                /\ df.GDD[Len(df.GDD)] = SumOverOkDays(df.day)

C18_Witness ==
    /\ "No Fertilizer" \in DOMAIN dataframes
    /\ dataframes["No Fertilizer"].hasGDD
    /\ dataframes["No Fertilizer"].day = <<1, 2>>
    /\ weather[1] = [ok |-> TRUE, TMAX |-> 25, TMIN |-> 12]
    /\ ~ weather[2].ok
    /\ dataframes["No Fertilizer"].GDD = <<37, 37>>

\* ------------------------------------------------------------------------
\* C19: main yield is the summary's TWSO when it is strictly positive; when
\* TWSO is <= 0 or absent it is 0.5 x TAGP for potato, cassava and
\* sweetpotato and 0.4 x TAGP for every other crop, an absent TAGP read as 0.
\* ------------------------------------------------------------------------
C19_MainYieldFallback ==
    (idx > 1 /\ engineOut.summary # <<>>) =>
        /\ main_yield = ExpectedYield(config.crop, engineOut.summary[1])
        /\ (LastOutcome.class = "ok" /\ results # <<>>
                /\ results[Len(results)].scenario_key = LastScenario.key) =>
              results[Len(results)].yield_kg =
                  ExpectedYield(config.crop, engineOut.summary[1])

C19_Witness ==
    /\ idx > 1
    /\ config.crop = "barley"
    /\ engineOut.summary = <<[TWSO |-> Present(0), TAGP |-> Present(9000)]>>
    /\ results # <<>>
    /\ results[Len(results)].scenario_key = LastScenario.key
    /\ results[Len(results)].yield_kg = 36000

\* ------------------------------------------------------------------------
\* C21: for every ScenarioResult, the yield in t/ha equals the yield in
\* kg/ha divided by 1000, exactly: as fractions, yield_t x 1000 = yield_kg.
\* ------------------------------------------------------------------------
C21_TonnesAreKgOverThousand ==
    \A i \in DOMAIN results :
        /\ results[i].yield_t.den # 0
        /\ results[i].yield_t.num * 1000 =
               results[i].yield_kg * results[i].yield_t.den

C21_Witness ==
    /\ results # <<>>
    /\ results[Len(results)].yield_kg = 43210
    /\ results[Len(results)].yield_t = [num |-> 43210, den |-> 1000]

\* ------------------------------------------------------------------------
\* Vocabulary of the window properties
\* ------------------------------------------------------------------------
\* the workers whose run() has not ended, and whether a batch is in flight:
\* running, or ended with its terminal signal not yet handled
RunningWorkers == {i \in DOMAIN workers : workers[i].state = "running"}
InFlight == RunningWorkers # {} \/ signals # <<>>

\* ------------------------------------------------------------------------
\* C22: in the main window a batch can be started only while none is in
\* flight: the Run control is disabled from the start of a batch until its
\* completion or fatal-error signal is handled and is enabled again by
\* either (completion without results included), at most one worker runs at
\* any time, and a disabled Run control is always enabled again.
\* ------------------------------------------------------------------------
C22_RunControlGuardsOneBatch ==
    /\ [](Cardinality(RunningWorkers) <= 1)
    /\ [](window.run_btn <=> ~ InFlight)
    /\ [][Len(workers') > Len(workers) => ~ InFlight]_vars
    /\ (~ window.run_btn) ~> window.run_btn

C22_Witness ==
    /\ Len(workers) = 2
    /\ workers[1].state = "finished_empty"
    /\ workers[2].state = "error"
    /\ signals = <<>>
    /\ window.run_btn
    /\ window.statusbar = "Simulation failed"

\* ------------------------------------------------------------------------
\* C23: at batch completion every ScenarioResult has, under its display
\* name, the table of that same run in the output-table map, and the map
\* holds no table of a scenario without a ScenarioResult, also when enabled
\* scenarios share a display name.
\* ------------------------------------------------------------------------
C23_TablesMatchResults ==
    Count("finished") = 1 =>
        /\ \A i \in DOMAIN results :
              /\ results[i].scenario \in DOMAIN dataframes
              /\ dataframes[results[i].scenario].key = results[i].scenario_key
        /\ \A n \in DOMAIN dataframes :
              \E i \in DOMAIN results :
                  results[i].scenario_key = dataframes[n].key

\* ------------------------------------------------------------------------
\* C24: the completed counter is incremented exactly once for each enabled
\* scenario processed, whether it succeeded or failed, and never for a
\* disabled one: where an iteration starts for an enabled scenario
\* 0 <= completed < total, when the loop has ended completed is the number
\* of enabled scenarios, and a record without an enabled flag is enabled
\* both for the total and for the loop.
\* ------------------------------------------------------------------------
EnabledBefore(i) ==
    Cardinality({j \in 1..(i - 1) : FlaggedOn(config.fert_scenarios[j])})

C24_CompletedCountsEnabled ==
    SetupSucceeded =>
        /\ total_scenarios = NEnabled
        /\ completed = Len(outcomes)
        /\ \A i \in DOMAIN outcomes : outcomes[i].key = EnabledKeys[i]
        /\ (pc = "loop" /\ idx <= Len(config.fert_scenarios)
                /\ FlaggedOn(config.fert_scenarios[idx])) =>
              (0 <= completed /\ completed < total_scenarios)
        /\ pc = "loop" => completed = EnabledBefore(idx)
        /\ (RunEnded \/ idx > Len(config.fert_scenarios)) =>
              completed = total_scenarios

\* ------------------------------------------------------------------------
\* C25: a batch that has been set up on a catalog without any enabled
\* scenario (all disabled, or empty) completes without error: the engine is
\* never invoked, the percent sequence is exactly 5, 15, 95, 100, and the
\* completion signal comes with an empty result list and an empty table map.
\* ------------------------------------------------------------------------
C25_NothingEnabledStillCompletes ==
    (RunEnded /\ SetupSucceeded /\ NEnabled = 0) =>
        /\ Count("finished") = 1
        /\ Count("error") = 0
        /\ emitted[Len(emitted)] = Finished
        /\ engineCalls = <<>>
        /\ PctOf(emitted) = <<5, 15, 95, 100>>
        /\ results = <<>>
        /\ DOMAIN dataframes = {}

C25_Witness ==
    /\ RunEnded
    /\ Len(config.fert_scenarios) = 2
    /\ \A i \in DOMAIN config.fert_scenarios :
          config.fert_scenarios[i].enabled = "False"
    /\ Count("finished") = 1
    /\ PctOf(emitted) = <<5, 15, 95, 100>>

\* ------------------------------------------------------------------------
\* C26: the GDD accumulator starts at 0 for each scenario: the first
\* cumulative value of a scenario is its first day's daily GDD, and its
\* whole series is the one its own days and the weather give, whichever
\* scenarios ran, failed or were disabled before it.
\* ------------------------------------------------------------------------
\* the cumulative series of a scenario that is aggregated on its own
SeriesAlone(days) ==
    [i \in 1..Len(days) |-> SumOverOkDays(SubSeq(days, 1, i))]

C26_AccumulatorStartsAtZero ==
    /\ \A i \in DOMAIN results :
          /\ results[i].df.GDD[1] = results[i].df.daily_GDD[1]
          /\ results[i].df.GDD = SeriesAlone(results[i].df.day)
    /\ \A n \in DOMAIN dataframes :
          dataframes[n].hasGDD =>
              /\ dataframes[n].GDD[1] = dataframes[n].daily_GDD[1]
              /\ dataframes[n].GDD = SeriesAlone(dataframes[n].day)

C26_Witness ==
    /\ Len(results) = 2
    /\ results[1].df.GDD = <<38, 75>>
    /\ results[2].df.GDD = <<38, 75>>
    /\ results[2].df.daily_GDD[1] = 38

\* ------------------------------------------------------------------------
\* C27: while the year's weather table is assembled, a failed lookup only
\* omits its date: the table holds the dates of the year whose lookup
\* succeeded, and such failures, however many (every date of the year
\* included), do not abort the batch.
\* ------------------------------------------------------------------------
C27_WeatherTableToleratesFailures ==
    /\ fatalOrigin # "table"
    /\ SetupSucceeded => weather_df \subseteq Days

\* ------------------------------------------------------------------------
\* C28: the fertilizer dialog edits a copy: while it is open the main
\* window's scenario set is what it was when the dialog opened, cancelling
\* leaves it so, only accepting changes it, DEFAULT_FERT_SCENARIOS is never
\* modified, and the scenario set a running batch was started with is not
\* changed by opening, editing or accepting the dialog.
\* ------------------------------------------------------------------------
WindowValue == Value(heap, window.fert_scenarios)

C28_DialogEditsActOnCopy ==
    /\ [](dialog.open => WindowValue = dialog.opened_on)
    /\ [](Value(heap, 1) = Value(DefaultHeap, 1))
    /\ [](\A i \in RunningWorkers :
            Value(heap, workers[i].fert_scenarios) = workers[i].captured)
    /\ [][(window'.fert_scenarios = window.fert_scenarios) =>
            Value(heap', window'.fert_scenarios) = WindowValue]_vars
    /\ [][(dialog.open /\ ~ dialog'.open
              /\ window'.fert_scenarios = window.fert_scenarios) =>
            Value(heap', window'.fert_scenarios) = dialog.opened_on]_vars

C28_Witness ==
    /\ Len(workers) = 1
    /\ workers[1].state = "running"
    /\ ~ dialog.open
    /\ window.fert_scenarios # workers[1].fert_scenarios
    /\ WindowValue # workers[1].captured
    /\ \E i \in 1..NKeys : ~ WindowValue[i].enabled

\* ------------------------------------------------------------------------
\* C29: when the engine run of a scenario returns normally with an empty or
\* missing summary, the scenario yields neither a ScenarioResult nor a table
\* entry, is still counted as completed, and the batch goes on with the next
\* scenario and ends with the completion signal.
\* ------------------------------------------------------------------------
EmptySummaryStep ==
    /\ Len(outcomes') = Len(outcomes) + 1
    /\ outcomes'[Len(outcomes')].class = "empty_summary"

C29_EmptySummaryIsSkipped ==
    /\ [][EmptySummaryStep =>
            /\ results' = results
            /\ dataframes' = dataframes
            /\ completed' = completed + 1
            /\ idx' = idx + 1
            /\ pc' = "loop"
            /\ fatalOrigin' = "none"]_vars
    /\ []((RunEnded /\ OutcomesOf({"empty_summary"}) # {}) =>
            /\ Count("finished") = 1
            /\ Count("error") = 0)
====
